---- MODULE Spec2Model ----
(***************************************************************************)
(* Model of server/weather.py: the get_alerts tool (one HTTP GET through   *)
(* make_nws_request, then format_alert and a join) and the echo_resource   *)
(* resource.                                                               *)
(*                                                                         *)
(* Text is a sequence of atoms.  An atom is either one of the single       *)
(* characters NL ("\n") and DASH ("-"), or an indivisible piece of text    *)
(* that contains neither of them.  Two texts are the same string exactly   *)
(* when they are the same sequence, and the separator "\n---\n" occurs in  *)
(* a text exactly where its five atoms occur as a contiguous run.          *)
(*                                                                         *)
(* A JSON value (what response.json() returns) is a tagged record:         *)
(* null/None, num, bool, str, list, dict.                                  *)
(***************************************************************************)
EXTENDS Integers, Sequences, FiniteSets, TLC

VARIABLES
    pc,        \* pc[i]: where invocation i of get_alerts stands
    state,     \* state[i]: its argument
    url,       \* url[i]: the URL it built
    clients,   \* clients[c]: "open" or "closed", for every AsyncClient made
    client,    \* client[i]: the client invocation i made (0: none yet)
    requests,  \* requests[i]: the GETs issued by invocation i
    response,  \* response[i]: what the network answered to its GET
    data,      \* data[i]: what make_nws_request returned
    result,    \* result[i]: what get_alerts gave its caller
    message,   \* the argument of the last echo_resource call
    echoed     \* what that call returned

invVars == <<pc, state, url, clients, client, requests, response, data, result>>

vars == <<invVars, message, echoed>>

(***************************************************************************)
(* Bounds of the model.                                                    *)
(***************************************************************************)
NumInvocations == 2
MaxFeatures == 2
MaxMessageLen == 3

Invocations == 1..NumInvocations

(***************************************************************************)
(* Text atoms and program constants.                                       *)
(***************************************************************************)
NL == "\n"
DASH == "-"

NWS_API_BASE == <<"https://api.weather.gov">>

UNABLE == <<"Unable to fetch alerts or no alerts found.">>
NO_ALERTS == <<"No active alerts for this state.">>
SEPARATOR == <<NL, DASH, DASH, DASH, NL>>
INDENT == "        "

(***************************************************************************)
(* JSON / Python values.                                                   *)
(***************************************************************************)
None == [t |-> "null"]
Num(n) == [t |-> "num", v |-> n]
Bool(b) == [t |-> "bool", v |-> b]
Str(s) == [t |-> "str", v |-> s]
List(xs) == [t |-> "list", v |-> xs]
Dict(f) == [t |-> "dict", v |-> f]

EmptyMap == [k \in {} |-> None]

\* A one-key and a two-key mapping.
Map1(k, x) == [kk \in {k} |-> x]
Map2(k1, x1, k2, x2) == [kk \in {k1, k2} |-> IF kk = k1 THEN x1 ELSE x2]

\* Python truthiness: bool(x).
Truthy(x) ==
    CASE x.t = "null" -> FALSE
      [] x.t = "num"  -> x.v # 0
      [] x.t = "bool" -> x.v
      [] x.t = "str"  -> x.v # <<>>
      [] x.t = "list" -> x.v # <<>>
      [] x.t = "dict" -> DOMAIN x.v # {}

\* needle occurs in text as a contiguous run of atoms.
OccursAt(needle, text, i) ==
    /\ i + Len(needle) - 1 <= Len(text)
    /\ \A j \in 1..Len(needle) : text[i + j - 1] = needle[j]

Occurrences(needle, text) ==
    Cardinality({i \in 1..Len(text) : OccursAt(needle, text, i)})

\* Python `key in x` for a str key: "yes", "no", or "TypeError" when x is no
\* container.
Contains(key, x) ==
    CASE x.t = "dict" -> IF key \in DOMAIN x.v THEN "yes" ELSE "no"
      [] x.t = "list" -> IF \E i \in 1..Len(x.v) : x.v[i] = Str(<<key>>)
                         THEN "yes" ELSE "no"
      [] x.t = "str"  -> IF Occurrences(<<key>>, x.v) > 0 THEN "yes" ELSE "no"
      [] OTHER        -> "TypeError"

\* str(x), what an f-string replacement field renders.
Render(x) ==
    CASE x.t = "str"  -> x.v
      [] x.t = "null" -> <<"None">>
      [] x.t = "bool" -> IF x.v THEN <<"True">> ELSE <<"False">>
      [] x.t = "num"  -> <<ToString(x.v)>>
      [] OTHER        -> <<"<repr>">>

\* What a call gives its caller: a returned string or a raised exception.
Return(s) == [kind |-> "return", val |-> s]
Raise(e) == [kind |-> "raise", val |-> <<e>>]
NotYet == [kind |-> "none", val |-> <<>>]

(***************************************************************************)
(* format_alert                                                            *)
(***************************************************************************)
\* dict.get(key, default) on a mapping m.
GetEmptyAsMissing(m, key, default) ==
    IF key \in DOMAIN m /\ Truthy(m[key]) THEN m[key] ELSE default

Get(m, key, default) ==
    IF key \in DOMAIN m THEN m[key] ELSE default

\* The f-string template of format_alert over a properties mapping.
Template(props) ==
    <<NL, INDENT, "Event: ">>
        \o Render(Get(props, "event", Str(<<"Unknown">>)))
    \o <<NL, INDENT, "Area: ">>
        \o Render(Get(props, "areaDesc", Str(<<"Unknown">>)))
    \o <<NL, INDENT, "Severity: ">>
        \o Render(Get(props, "severity", Str(<<"Unknown">>)))
    \o <<NL, INDENT, "Description: ">>
        \o Render(Get(props, "description", Str(<<"No description available">>)))
    \o <<NL, INDENT, "Instructions: ">>
        \o Render(Get(props, "instruction",
                      Str(<<"No specific instructions provided">>)))
    \o <<NL, INDENT>>

\* format_alert(feature): feature["properties"] raises KeyError on a mapping
\* without the key and TypeError on a value that is no mapping; props.get
\* raises AttributeError on a value that is no mapping.
format_alert(feature) ==
    IF feature.t # "dict" THEN Raise("TypeError")
    ELSE IF "properties" \notin DOMAIN feature.v THEN Raise("KeyError")
    ELSE LET props == feature.v["properties"]
         IN  IF props.t # "dict" THEN Raise("AttributeError")
             ELSE Return(Template(props.v))

(***************************************************************************)
(* get_alerts after the request: lines 62-72.                              *)
(***************************************************************************)
RECURSIVE JoinReversed(_, _)
JoinReversed(sep, parts) ==
    IF parts = <<>> THEN <<>>
    ELSE IF Len(parts) = 1 THEN parts[1]
    ELSE JoinReversed(sep, Tail(parts)) \o sep \o Head(parts)

\* sep.join(parts)
RECURSIVE Join(_, _)
Join(sep, parts) ==
    IF parts = <<>> THEN <<>>
    ELSE IF Len(parts) = 1 THEN parts[1]
    ELSE Head(parts) \o sep \o Join(sep, Tail(parts))

\* Iterating a value: the elements of a list, the keys of a dict (each a
\* str), the pieces of a str (each a str).  Numbers, booleans and None are
\* not iterable.
Elements(x) ==
    CASE x.t = "list" -> x.v
      [] x.t = "str"  -> [i \in 1..Len(x.v) |-> Str(<<x.v[i]>>)]
      [] x.t = "dict" ->
           LET RECURSIVE Keys(_)
               Keys(ks) == IF ks = {} THEN <<>>
                           ELSE LET k == CHOOSE k \in ks : TRUE
                                IN  <<Str(<<k>>)>> \o Keys(ks \ {k})
           IN  Keys(DOMAIN x.v)
      [] OTHER -> <<>>

\* [format_alert(feature) for feature in features]: the list of blocks, or
\* the exception of the first feature that raises.
Comprehension(items) ==
    LET outs == [i \in 1..Len(items) |-> format_alert(items[i])]
        bad  == {i \in 1..Len(items) : outs[i].kind = "raise"}
    IN  IF bad # {}
        THEN outs[CHOOSE i \in bad : \A j \in bad : i <= j]
        ELSE Return([i \in 1..Len(items) |-> outs[i].val])

AlertsNoEmptyCheck(d) ==
    IF ~Truthy(d) THEN Return(UNABLE)
    ELSE IF Contains("features", d) = "TypeError" THEN Raise("TypeError")
    ELSE IF Contains("features", d) = "no" THEN Return(UNABLE)
    ELSE IF d.t # "dict" THEN Raise("TypeError")
    ELSE LET features == d.v["features"]
         IN  IF features.t \in {"null", "num", "bool"} THEN Raise("TypeError")
             ELSE LET alerts == Comprehension(Elements(features))
                  IN  IF alerts.kind = "raise" THEN alerts
                      ELSE Return(Join(SEPARATOR, alerts.val))

\* The body of get_alerts once make_nws_request has returned d.
Alerts(d) ==
    IF ~Truthy(d) THEN Return(UNABLE)
    ELSE IF Contains("features", d) = "TypeError" THEN Raise("TypeError")
    ELSE IF Contains("features", d) = "no" THEN Return(UNABLE)
    ELSE IF d.t # "dict" THEN Raise("TypeError")
    ELSE LET features == d.v["features"]
         IN  IF ~Truthy(features) THEN Return(NO_ALERTS)
             ELSE IF features.t \in {"num", "bool"} THEN Raise("TypeError")
             ELSE LET alerts == Comprehension(Elements(features))
                  IN  IF alerts.kind = "raise" THEN alerts
                      ELSE Return(Join(SEPARATOR, alerts.val))

(***************************************************************************)
(* make_nws_request: what the try block gives for a response.  A response  *)
(* is [net, status, body]: net is "ok" or the transport error raised by    *)
(* client.get; body is a JSON value or Malformed (response.json() raises). *)
(***************************************************************************)
Malformed == [t |-> "malformed"]

IsSuccess(status) == status \in 200..299

ParseIgnoringStatus(resp) ==
    IF resp.net # "ok" THEN None
    ELSE IF resp.body = Malformed THEN None
    ELSE resp.body

Parse(resp) ==
    IF resp.net # "ok" THEN None                 \* client.get raised
    ELSE IF ~IsSuccess(resp.status) THEN None    \* raise_for_status raised
    ELSE IF resp.body = Malformed THEN None      \* response.json() raised
    ELSE resp.body

(***************************************************************************)
(* echo_resource                                                           *)
(***************************************************************************)
echo_format(msg) ==
    <<"Resource echo: ">> \o SelectSeq(msg, LAMBDA a : a \notin {"{", "}"})

echo_resource(msg) == <<"Resource echo: ">> \o msg

(***************************************************************************)
(* The inputs: regions, JSON bodies, responses.                            *)
(***************************************************************************)
Regions == {<<"CA">>, <<>>}

PropKeys == {"event", "areaDesc", "severity", "description", "instruction"}
PropValues == {Str(<<>>), Str(<<"A">>), None}

\* Every properties mapping: each key absent or present with a value.
AllProps == UNION {[K -> PropValues] : K \in SUBSET PropKeys}

Feature(props) == Dict(Map1("properties", Dict(props)))
FeatureCollection(fs) == Dict(Map1("features", List(fs)))

\* Features of the responses that carry several.
MultiFeatures ==
    { Feature(EmptyMap),
      Feature(Map1("event", Str(<<"A">>))),
      Feature(Map1("event", Str(<<"B">>))),
      Feature(Map1("description", Str(<<"x", NL, DASH, DASH, DASH>>))),
      Feature(Map1("instruction", Str(SEPARATOR))),
      Dict(EmptyMap),
      Dict(Map1("properties", None)) }

\* Parsed bodies that are no feature collection.
OtherBodies ==
    { None, Num(0), Num(5), Bool(TRUE), Bool(FALSE),
      Str(<<>>), Str(<<"x">>), Str(<<"my ", "features">>),
      List(<<>>), List(<<Num(1)>>), List(<<Str(<<"features">>)>>),
      Dict(EmptyMap),
      Dict(Map1("type", Str(<<"FeatureCollection">>))),
      Dict(Map1("title", Str(<<"features">>))),
      Dict(Map1("features", None)),
      Dict(Map1("features", Num(0))),
      Dict(Map1("features", Num(5))),
      Dict(Map1("features", Str(<<>>))),
      Dict(Map1("features", Str(<<"x">>))),
      Dict(Map1("features", Dict(EmptyMap))),
      Dict(Map1("features", Dict(Map1("properties", Dict(EmptyMap))))),
      Dict(Map2("features", List(<<>>), "type", Str(<<"FeatureCollection">>))),
      FeatureCollection(<<>>),
      FeatureCollection(<<Dict(EmptyMap)>>),
      FeatureCollection(<<Num(1)>>),
      FeatureCollection(<<Str(<<"x">>)>>),
      FeatureCollection(<<Dict(Map1("properties", None))>>),
      FeatureCollection(<<Dict(Map1("properties", List(<<>>)))>>) }

AllBodies ==
    OtherBodies
    \cup {FeatureCollection(<<Feature(p)>>) : p \in AllProps}
    \cup UNION {{FeatureCollection(fs) : fs \in [1..n -> MultiFeatures]}
                : n \in 2..MaxFeatures}

Resp(net, status, body) == [net |-> net, status |-> status, body |-> body]
NoResponse == Resp("none", 0, Malformed)

\* What the network can answer: a transport error, a timeout, a non-2xx
\* status (whatever the body), a 2xx status with a body that is not JSON,
\* or a 2xx status with a JSON body.
Responses(bodies) ==
    {Resp("ConnectError", 0, Malformed), Resp("ReadTimeout", 0, Malformed)}
    \cup {Resp("ok", s, b) :
            s \in {301, 404, 500},
            b \in {Malformed, FeatureCollection(<<>>),
                   FeatureCollection(<<Feature(EmptyMap)>>)}}
    \cup {Resp("ok", 200, b) : b \in bodies \cup {Malformed}}

\* The responses of the runs with several invocations: one of each kind.
SomeResponses ==
    { Resp("ConnectError", 0, Malformed),
      Resp("ok", 404, FeatureCollection(<<Feature(EmptyMap)>>)),
      Resp("ok", 200, FeatureCollection(<<>>)),
      Resp("ok", 200, FeatureCollection(<<Dict(EmptyMap)>>)),
      Resp("ok", 200, FeatureCollection(<<Feature(Map1("event", Str(<<"A">>)))>>)) }

RECURSIVE SeqsUpTo(_, _)
SeqsUpTo(S, n) ==
    IF n = 0 THEN {<<>>}
    ELSE LET shorter == SeqsUpTo(S, n - 1)
         IN  shorter \cup {Append(m, a) : m \in {x \in shorter : Len(x) = n - 1},
                                          a \in S}

Messages == SeqsUpTo({"hi", "{", "}"}, MaxMessageLen)

(***************************************************************************)
(* The state machine.                                                      *)
(***************************************************************************)
Init ==
    /\ pc = [i \in Invocations |-> "idle"]
    /\ state = [i \in Invocations |-> <<>>]
    /\ url = [i \in Invocations |-> <<>>]
    /\ clients = <<>>
    /\ client = [i \in Invocations |-> 0]
    /\ requests = [i \in Invocations |-> 0]
    /\ response = [i \in Invocations |-> NoResponse]
    /\ data = [i \in Invocations |-> None]
    /\ result = [i \in Invocations |-> NotYet]
    /\ message = <<>>
    /\ echoed = <<>>

\* httpx.AsyncClient(): a new client object, open once entered.
SharedClient(cs) == IF cs = <<>> THEN <<"open">> ELSE [cs EXCEPT ![1] = "open"]

NewClient(cs) == Append(cs, "open")

\* get_alerts is called: it builds the URL, calls make_nws_request, which
\* enters `async with httpx.AsyncClient() as client`.
Invoke(i, st) ==
    /\ pc[i] = "idle"
    /\ pc' = [pc EXCEPT ![i] = "opened"]
    /\ state' = [state EXCEPT ![i] = st]
    /\ url' = [url EXCEPT ![i] = NWS_API_BASE \o <<"/alerts/active/area/">> \o st]
    /\ clients' = NewClient(clients)
    /\ client' = [client EXCEPT ![i] = Len(clients')]
    /\ UNCHANGED <<requests, response, data, result, message, echoed>>

\* client.get(url, ...) is issued and awaited: the one suspension point.
SendRequest(i) ==
    /\ pc[i] = "opened"
    /\ pc' = [pc EXCEPT ![i] = "awaiting"]
    /\ requests' = [requests EXCEPT ![i] = @ + 1]
    /\ UNCHANGED <<state, url, clients, client, response, data, result,
                   message, echoed>>

\* The network answers the pending request of invocation i.
Respond(i, r) ==
    /\ pc[i] = "awaiting"
    /\ pc' = [pc EXCEPT ![i] = "received"]
    /\ response' = [response EXCEPT ![i] = r]
    /\ UNCHANGED <<state, url, clients, client, requests, data, result,
                   message, echoed>>

ResumeRetrying(i) ==
    /\ pc[i] = "received"
    /\ IF Parse(response[i]) = None /\ requests[i] < 2
       THEN /\ pc' = [pc EXCEPT ![i] = "awaiting"]
            /\ requests' = [requests EXCEPT ![i] = @ + 1]
            /\ UNCHANGED <<data, clients>>
       ELSE /\ pc' = [pc EXCEPT ![i] = "returned"]
            /\ data' = [data EXCEPT ![i] = Parse(response[i])]
            /\ clients' = [clients EXCEPT ![client[i]] = "closed"]
            /\ UNCHANGED requests
    /\ UNCHANGED <<state, url, client, response, result, message, echoed>>

\* The coroutine resumes: raise_for_status, response.json(), the except
\* clause; the async with block is left and closes the client.
Resume(i) ==
    /\ pc[i] = "received"
    /\ pc' = [pc EXCEPT ![i] = "returned"]
    /\ data' = [data EXCEPT ![i] = Parse(response[i])]
    /\ clients' = [clients EXCEPT ![client[i]] = "closed"]
    /\ UNCHANGED <<state, url, client, requests, response, result,
                   message, echoed>>

CancelLeaking(i) ==
    /\ pc[i] \in {"awaiting", "received"}
    /\ pc' = [pc EXCEPT ![i] = "done"]
    /\ result' = [result EXCEPT ![i] = Raise("CancelledError")]
    /\ UNCHANGED <<state, url, clients, client, requests, response, data,
                   message, echoed>>

\* The invocation is cancelled while suspended: CancelledError is no
\* Exception, so the except clause lets it pass; the async with block
\* closes the client on the way out and get_alerts propagates it.
Cancel(i) ==
    /\ pc[i] \in {"awaiting", "received"}
    /\ pc' = [pc EXCEPT ![i] = "done"]
    /\ clients' = [clients EXCEPT ![client[i]] = "closed"]
    /\ result' = [result EXCEPT ![i] = Raise("CancelledError")]
    /\ UNCHANGED <<state, url, client, requests, response, data,
                   message, echoed>>

\* get_alerts runs from line 62 to its end.
Finish(i) ==
    /\ pc[i] = "returned"
    /\ pc' = [pc EXCEPT ![i] = "done"]
    /\ result' = [result EXCEPT ![i] = Alerts(data[i])]
    /\ UNCHANGED <<state, url, clients, client, requests, response, data,
                   message, echoed>>

\* echo_resource(msg) is called.
Echo(msg) ==
    /\ message' = msg
    /\ echoed' = echo_resource(msg)
    /\ UNCHANGED invVars

\* Concurrent invocations of get_alerts.
Next ==
    \E i \in Invocations :
        \/ \E st \in Regions : Invoke(i, st)
        \/ SendRequest(i)
        \/ \E r \in SomeResponses : Respond(i, r)
        \/ Resume(i)
        \/ Cancel(i)
        \/ Finish(i)

Spec == Init /\ [][Next]_vars

\* One invocation of get_alerts, over every response.
NextOne ==
    \/ \E st \in Regions : Invoke(1, st)
    \/ SendRequest(1)
    \/ \E r \in Responses(AllBodies) : Respond(1, r)
    \/ Resume(1)
    \/ Cancel(1)
    \/ Finish(1)

SpecOne == Init /\ [][NextOne]_vars

\* echo_resource called while an invocation of get_alerts is under way.
NextEcho ==
    \/ \E msg \in Messages : Echo(msg)
    \/ \E st \in Regions : Invoke(1, st)
    \/ SendRequest(1)
    \/ \E r \in SomeResponses : Respond(1, r)
    \/ Resume(1)
    \/ Cancel(1)
    \/ Finish(1)

SpecEcho == Init /\ [][NextEcho]_vars

TypeOK ==
    /\ \A i \in Invocations :
         /\ pc[i] \in {"idle", "opened", "awaiting", "received", "returned", "done"}
         /\ client[i] \in 0..Len(clients)
         /\ result[i].kind \in {"none", "return", "raise"}
    /\ \A c \in 1..Len(clients) : clients[c] \in {"open", "closed"}

(***************************************************************************)
(* Vocabulary of the properties.                                           *)
(***************************************************************************)
Cancelled == Raise("CancelledError")

\* Invocation i ran to its end on the response to its request.
Completed(i) == pc[i] = "done" /\ result[i] # Cancelled

\* The request failed: transport error or timeout, non-2xx status, or a
\* body that is not JSON.
RequestFailed(r) ==
    \/ r.net # "ok"
    \/ r.status < 200
    \/ r.status > 299
    \/ r.body = Malformed

HasFeaturesKey(b) == b.t = "dict" /\ "features" \in DOMAIN b.v

\* A feature that carries a properties mapping.
WellFormed(f) ==
    /\ f.t = "dict"
    /\ "properties" \in DOMAIN f.v
    /\ f.v["properties"].t = "dict"

\* The response is a parsed feature collection of n >= 1 such features.
HasAlerts(r) ==
    /\ ~RequestFailed(r)
    /\ HasFeaturesKey(r.body)
    /\ r.body.v["features"].t = "list"
    /\ Len(r.body.v["features"].v) >= 1
    /\ \A k \in 1..Len(r.body.v["features"].v) :
           WellFormed(r.body.v["features"].v[k])

FeaturesOf(r) == r.body.v["features"].v

RECURSIVE Flatten(_)
Flatten(parts) ==
    IF parts = <<>> THEN <<>> ELSE Head(parts) \o Flatten(Tail(parts))

\* block 1, separator, block 2, ..., separator, block n.
Interleaved(blocks) ==
    [k \in 1..(2 * Len(blocks) - 1) |->
        IF k % 2 = 1 THEN blocks[(k + 1) \div 2] ELSE SEPARATOR]

BlocksOf(r) ==
    [k \in 1..Len(FeaturesOf(r)) |-> format_alert(FeaturesOf(r)[k]).val]

\* Some rendered field value of the features of r contains "\n---".
SomeValueHasRule(r) ==
    \E k \in 1..Len(FeaturesOf(r)) :
        LET p == FeaturesOf(r)[k].v["properties"].v
        IN  \E key \in DOMAIN p :
                Occurrences(<<NL, DASH, DASH, DASH>>, Render(p[key])) > 0

Fields ==
    << [key |-> "event",       label |-> "Event: ",
        default |-> "Unknown"],
       [key |-> "areaDesc",    label |-> "Area: ",
        default |-> "Unknown"],
       [key |-> "severity",    label |-> "Severity: ",
        default |-> "Unknown"],
       [key |-> "description", label |-> "Description: ",
        default |-> "No description available"],
       [key |-> "instruction", label |-> "Instructions: ",
        default |-> "No specific instructions provided"] >>

\* What a field shows: its value when the key is present (a JSON null
\* shows as Python prints it), its default when the key is absent.
Shown(p, f) ==
    IF f.key \in DOMAIN p
    THEN IF p[f.key].t = "str" THEN p[f.key].v ELSE <<"None">>
    ELSE <<f.default>>

ExpectedBlock(p) ==
    Flatten([k \in 1..Len(Fields) |->
                <<NL, INDENT, Fields[k].label>> \o Shown(p, Fields[k])])
    \o <<NL, INDENT>>

AllDefaults ==
    << NL, INDENT, "Event: ", "Unknown",
       NL, INDENT, "Area: ", "Unknown",
       NL, INDENT, "Severity: ", "Unknown",
       NL, INDENT, "Description: ", "No description available",
       NL, INDENT, "Instructions: ", "No specific instructions provided",
       NL, INDENT >>

\* What invocation i alone would give on response r.
SoloResult(r) == Alerts(Parse(r))

\* The step changes something of invocation i.
Touched(i) ==
    <<pc[i], state[i], url[i], client[i], requests[i], response[i],
      data[i], result[i]>>'
    # <<pc[i], state[i], url[i], client[i], requests[i], response[i],
        data[i], result[i]>>

(***************************************************************************)
(* The claims.                                                             *)
(***************************************************************************)

\* C1: whatever the outcome of the HTTP request (failure, or a parsed JSON
\* body of any shape), get_alerts returns a string and raises nothing, and
\* a failed request ends in one of the two fallback strings.
C1_AlwaysReturnsString ==
    \A i \in Invocations :
        Completed(i) =>
            /\ result[i].kind = "return"
            /\ RequestFailed(response[i]) => result[i].val \in {UNABLE, NO_ALERTS}

\* C2: when the request fails (transport error, timeout, non-2xx status
\* even with a valid alert body, body that is not JSON), make_nws_request
\* gives no data and get_alerts returns the "Unable to fetch" string.
C2_FailedRequestIsUnable ==
    \A i \in Invocations :
        RequestFailed(response[i]) =>
            /\ pc[i] = "returned" => data[i] = None
            /\ Completed(i) => data[i] = None /\ result[i] = Return(UNABLE)

C2_Witness ==
    /\ Completed(1)
    /\ response[1] = Resp("ok", 404, FeatureCollection(<<Feature(EmptyMap)>>))
    /\ result[1] = Return(UNABLE)

\* C3: when the request succeeds and the parsed body has no `features` key,
\* whatever else it is, get_alerts returns the "Unable to fetch" string.
C3_NoFeaturesKeyIsUnable ==
    \A i \in Invocations :
        Completed(i) /\ ~RequestFailed(response[i])
                     /\ ~HasFeaturesKey(response[i].body)
            => result[i] = Return(UNABLE)

\* C4: when the request succeeds and the parsed body has a `features` key
\* whose value is the empty sequence, get_alerts returns the "No active
\* alerts" string.
C4_EmptyFeaturesIsNoAlerts ==
    \A i \in Invocations :
        Completed(i) /\ ~RequestFailed(response[i])
                     /\ HasFeaturesKey(response[i].body)
                     /\ response[i].body.v["features"] = List(<<>>)
            => result[i] = Return(NO_ALERTS)

C4_Witness ==
    /\ Completed(1)
    /\ response[1] = Resp("ok", 200, FeatureCollection(<<>>))
    /\ result[1] = Return(NO_ALERTS)

\* C5 as stated: with n >= 1 features the result is their blocks in input
\* order with the separator between adjacent blocks only, and with two
\* features the result contains the separator exactly once.
C5_JoinedWithOneSeparator ==
    \A i \in Invocations :
        Completed(i) /\ HasAlerts(response[i]) =>
            /\ result[i] = Return(Flatten(Interleaved(BlocksOf(response[i]))))
            /\ Len(FeaturesOf(response[i])) = 2
                 => Occurrences(SEPARATOR, result[i].val) = 1

\* C5 amended: with n >= 1 features the result is their blocks in input
\* order with the separator between adjacent blocks only; with two features
\* it is block 1, the separator, block 2, and it contains the separator
\* exactly once when no rendered field value contains "\n---".
C5_JoinedInOrder ==
    \A i \in Invocations :
        Completed(i) /\ HasAlerts(response[i]) =>
            /\ result[i] = Return(Flatten(Interleaved(BlocksOf(response[i]))))
            /\ Len(FeaturesOf(response[i])) = 2 =>
                 /\ result[i].val = BlocksOf(response[i])[1] \o SEPARATOR
                                       \o BlocksOf(response[i])[2]
                 /\ ~SomeValueHasRule(response[i])
                      => Occurrences(SEPARATOR, result[i].val) = 1

C5_Witness ==
    /\ Completed(1)
    /\ response[1] = Resp("ok", 200,
          FeatureCollection(<<Feature(Map1("event", Str(<<"A">>))),
                              Feature(Map1("event", Str(<<"B">>)))>>))
    /\ result[1].kind = "return"
    /\ Occurrences(SEPARATOR, result[1].val) = 1

\* C6: each of the five fields shows its value when its key is present (a
\* present empty string shows as the empty string) and its exact default
\* when the key is absent; with no key at all the five defaults show.
C6_FieldsAndDefaults ==
    \A i \in Invocations :
        Completed(i) /\ HasAlerts(response[i])
                     /\ Len(FeaturesOf(response[i])) = 1 =>
            LET p == FeaturesOf(response[i])[1].v["properties"].v
            IN  /\ result[i] = Return(ExpectedBlock(p))
                /\ p = EmptyMap => result[i].val = AllDefaults

C6_Witness ==
    /\ Completed(1)
    /\ response[1] = Resp("ok", 200,
          FeatureCollection(<<Feature(Map2("event", Str(<<>>),
                                           "severity", Str(<<"A">>)))>>))
    /\ result[1].kind = "return"
    /\ SubSeq(result[1].val, 1, 7) = <<NL, INDENT, "Event: ",
                                       NL, INDENT, "Area: ", "Unknown">>

\* C7: an invocation issues exactly one GET, whatever the outcome: none
\* before the request, one from then on, never a second.
C7_ExactlyOneRequest ==
    \A i \in Invocations :
        IF pc[i] \in {"idle", "opened"} THEN requests[i] = 0
                                         ELSE requests[i] = 1

C7_Witness ==
    /\ Completed(1)
    /\ RequestFailed(response[1])
    /\ requests[1] = 1

\* C8: echo_resource returns "Resource echo: " followed by the message
\* unchanged, and a call changes nothing of the invocations of get_alerts.
C8_EchoIsPrefixPlusMessage ==
    /\ [](echoed # <<>> => /\ Len(echoed) = Len(message) + 1
                           /\ Head(echoed) = "Resource echo: "
                           /\ Tail(echoed) = message)
    /\ [][message' # message \/ echoed' # echoed
            => echoed' # <<>> /\ UNCHANGED invVars]_vars

C8_Witness ==
    /\ message = <<"{", "hi", "}">>
    /\ echoed = <<"Resource echo: ", "{", "hi", "}">>
    /\ pc[1] = "awaiting"

\* C9: the client an invocation opened is closed once make_nws_request is
\* left, by a return or by cancellation; a closed client stays closed and
\* no GET is issued on it.
C9_ClientClosedOnEveryExit ==
    /\ [](\A i \in Invocations :
            pc[i] \in {"returned", "done"} =>
                client[i] \in 1..Len(clients) /\ clients[client[i]] = "closed")
    /\ [][/\ \A i \in Invocations :
                requests'[i] # requests[i] =>
                    client[i] \in 1..Len(clients) /\ clients[client[i]] = "open"
          /\ \A c \in 1..Len(clients) :
                clients[c] = "closed" => clients'[c] = "closed"]_vars

C9_Witness ==
    /\ pc[1] = "done"
    /\ result[1] = Cancelled
    /\ response[1] = NoResponse
    /\ clients[client[1]] = "closed"

\* C10: invocations share nothing: each has a client of its own, every step
\* changes the state of one invocation and of its own client only, and the
\* result of each is what it would give alone on the response to its own
\* request.
C10_InvocationsIndependent ==
    /\ [](\A i, j \in Invocations :
            i # j /\ client[i] # 0 /\ client[j] # 0 => client[i] # client[j])
    /\ [](\A i \in Invocations :
            Completed(i) => result[i] = SoloResult(response[i]))
    /\ [][/\ \A i, j \in Invocations : i # j => ~(Touched(i) /\ Touched(j))
          /\ \A c \in 1..Len(clients) :
                clients'[c] # clients[c] =>
                    \E i \in Invocations : client[i] = c /\ Touched(i)]_vars

C10_Witness ==
    /\ Completed(1)
    /\ Completed(2)
    /\ response[1] = Resp("ok", 200, FeatureCollection(<<>>))
    /\ response[2] = Resp("ConnectError", 0, Malformed)
    /\ result[1] = Return(NO_ALERTS)
    /\ result[2] = Return(UNABLE)
    /\ client[1] = 2

====
